---- MODULE Spec2Model ----
(***************************************************************************)
(* File-level API of OIFITSlib (oifile.c): the oi_fits container, the      *)
(* writer write_oi_fits, the loader read_oi_fits with its name indices,    *)
(* the revision checks, the header synthesis and the deep copies.          *)
(*                                                                         *)
(* The table codec (write_oi_*, read_next_oi_*, cfitsio) lives outside     *)
(* oifile.c.  It is modelled at its interface: a file is a primary header, *)
(* a target table and a sequence of extension HDUs; every codec routine    *)
(* follows the cfitsio convention of doing nothing when it is entered with *)
(* a non-zero status.                                                      *)
(***************************************************************************)
EXTENDS Integers, Sequences, FiniteSets, TLC

VARIABLES pc,        \* position of the calling program / of the routine running
          status,    \* *pStatus, shared by the calls as cfitsio callers do
          file,      \* the FITS file on disk
          hdupos,    \* current HDU of fptr (0 = primary HDU)
          oi,        \* the container handed to write_oi_fits
          link,      \* WRITE_OI_LIST: position in the list being written
          extver,    \* WRITE_OI_LIST: next EXTVER
          pass,      \* index of the table type being written or read
          rd,        \* *pOi of read_oi_fits
          calls,     \* codec calls issued so far, in order
          heap,      \* malloc'ed arrays, by address (deep copy)
          src,       \* deep copy: the input table, pInTab
          cpy,       \* deep copy: the returned table, pOutTab
          ret,       \* what the last call of a query or of set_oi_header returned
          scans      \* the find_oi_* calls of read_oi_fits so far, in order

vars == <<pc, status, file, hdupos, oi, link, extver, pass, rd, calls,
          heap, src, cpy, ret, scans>>

iovars == <<status, file, hdupos, oi, link, extver, pass, rd, calls, scans>>
dupvars == <<heap, src, cpy>>

(***************************************************************************)
(* Bounds of the model.                                                    *)
(***************************************************************************)
MaxBlocks == 3         \* tables in a file or in a container

(***************************************************************************)
(* Status codes.  END_OF_FILE is the codec's "no more tables of this type".*)
(***************************************************************************)
END_OF_FILE == 107

\* the status a failing codec routine leaves, by routine (cfitsio codes)
fits_error == [fits_create_file |-> 105, fits_open_file |-> 104,
               fits_close_file |-> 110, fits_movabs_hdu |-> 301,
               read_oi_header |-> 202, read_oi_target |-> 302,
               read_next |-> 108, write_oi_header |-> 201,
               write_oi_target |-> 216, write_table |-> 106]

\* the statuses the caller may hold before the first call (0, or an earlier error)
EntryStatus == {0, 151}

(***************************************************************************)
(* Table types, in the order write_oi_fits and read_oi_fits process them.  *)
(***************************************************************************)
TableTypes == <<"OI_ARRAY", "OI_WAVELENGTH", "OI_CORR", "OI_POLAR",
                "OI_VIS", "OI_VIS2", "OI_T3", "OI_SPECTRUM">>

NumTypes == Len(TableTypes)

TypeIndex(ext) == CHOOSE i \in 1..NumTypes : TableTypes[i] = ext

\* the oi_fits member holding the list, and the count, of each table type
ListOf == [OI_ARRAY |-> "arrayList", OI_WAVELENGTH |-> "wavelengthList",
           OI_CORR |-> "corrList", OI_POLAR |-> "polarList",
           OI_VIS |-> "visList", OI_VIS2 |-> "vis2List",
           OI_T3 |-> "t3List", OI_SPECTRUM |-> "spectrumList"]

NumOf == [OI_ARRAY |-> "numArray", OI_WAVELENGTH |-> "numWavelength",
          OI_CORR |-> "numCorr", OI_POLAR |-> "numPolar",
          OI_VIS |-> "numVis", OI_VIS2 |-> "numVis2",
          OI_T3 |-> "numT3", OI_SPECTRUM |-> "numSpectrum"]

DataTypes == {"OI_VIS", "OI_VIS2", "OI_T3", "OI_SPECTRUM"}

NULL == 0              \* the null pointer; a table pointer is its list position

(***************************************************************************)
(* C strings that the code takes apart (DATE-OBS) are sequences of         *)
(* characters; names that are only copied and compared are TLA+ strings.   *)
(***************************************************************************)
Digit == <<"0", "1", "2", "3", "4", "5", "6", "7", "8", "9">>

IsDigit(c) == \E i \in 1..10 : Digit[i] = c

DigitVal(c) == (CHOOSE i \in 1..10 : Digit[i] = c) - 1

\* C integer division and remainder (truncation toward zero)
Abs(a) == IF a < 0 THEN -a ELSE a

CDiv(a, b) ==
  IF (a < 0) = (b < 0) THEN Abs(a) \div Abs(b) ELSE -(Abs(a) \div Abs(b))

CMod(a, b) == a - b * CDiv(a, b)

RECURSIVE Digits(_)
Digits(n) == IF n < 10 THEN <<Digit[n + 1]>>
             ELSE Digits(n \div 10) \o <<Digit[(n % 10) + 1]>>

RECURSIVE Pad(_, _)
Pad(n, c) == IF n <= 0 THEN <<>> ELSE <<c>> \o Pad(n - 1, c)

\* printf "%<width>ld" (fill = " ") and "%0<width>ld" (fill = "0")
FormatField(sign, digs, width, fill) ==
  IF fill = "0" THEN sign \o Pad(width - Len(sign) - Len(digs), "0") \o digs
  ELSE Pad(width - Len(sign) - Len(digs), " ") \o sign \o digs

FormatLd(n, width, fill) ==
  FormatField(IF n < 0 THEN <<"-">> ELSE <<>>, Digits(Abs(n)), width, fill)

\* scanf "%<width>ld" at position p of s: [ok, val, next]
RECURSIVE SkipSpace(_, _)
SkipSpace(s, p) == IF p <= Len(s) /\ s[p] = " " THEN SkipSpace(s, p + 1) ELSE p

RECURSIVE ScanDigits(_, _, _, _)
ScanDigits(s, p, room, acc) ==
  IF room > 0 /\ p <= Len(s) /\ IsDigit(s[p])
  THEN ScanDigits(s, p + 1, room - 1, 10 * acc + DigitVal(s[p]))
  ELSE [val |-> acc, next |-> p]

\* the value scanned from the digits found at d (q is where the field began)
ScanResult(s, q, d, r) ==
  [ok |-> r.next > d,
   val |-> IF d > q /\ s[q] = "-" THEN -r.val ELSE r.val,
   next |-> r.next]

ScanAt(s, q, width) ==
  IF q <= Len(s) /\ s[q] \in {"-", "+"} /\ width > 1
  THEN ScanResult(s, q, q + 1, ScanDigits(s, q + 1, width - 1, 0))
  ELSE ScanResult(s, q, q, ScanDigits(s, q, width, 0))

ScanLd(s, p, width) == ScanAt(s, SkipSpace(s, p), width)

\* the literal "-" of the format at position p
ScanDash(s, p) == p <= Len(s) /\ s[p] = "-"

\* sscanf(s, "%4ld-%2ld-%2ld", &year, &month, &day): [n, year, month, day]
ScanDay(s, y, m, d) ==
  IF d.ok THEN [n |-> 3, year |-> y.val, month |-> m.val, day |-> d.val]
  ELSE [n |-> 2, year |-> y.val, month |-> m.val, day |-> 0]

ScanMonth(s, y, m) ==
  IF ~m.ok THEN [n |-> 1, year |-> y.val, month |-> 0, day |-> 0]
  ELSE IF ~ScanDash(s, m.next)
       THEN [n |-> 2, year |-> y.val, month |-> m.val, day |-> 0]
  ELSE ScanDay(s, y, m, ScanLd(s, m.next + 1, 2))

ScanYear(s, y) ==
  IF ~y.ok THEN [n |-> 0, year |-> 0, month |-> 0, day |-> 0]
  ELSE IF ~ScanDash(s, y.next)
       THEN [n |-> 1, year |-> y.val, month |-> 0, day |-> 0]
  ELSE ScanMonth(s, y, ScanLd(s, y.next + 1, 2))

ScanDate(s) == ScanYear(s, ScanLd(s, 1, 4))

\* g_snprintf(..., "%4ld-%02ld-%02ld", year, month, day)
PrintDate(year, month, day) ==
  FormatLd(year, 4, " ") \o <<"-">> \o FormatLd(month, 2, "0")
    \o <<"-">> \o FormatLd(day, 2, "0")

\* datemjd: calendar date to Modified Julian Day and back
date2mjd(year, month, day) ==
  367 * year
  - CDiv(7 * (year + CDiv(month + 9, 12)), 4)
  - CDiv(3 * (CDiv(year + CDiv(month - 9, 7), 100) + 1), 4)
  + CDiv(275 * month, 9) + day + 1721028 - 2400000

Mjd2DateC(y2, m, d3) ==
  [year |-> y2 + CDiv(m, 11),
   month |-> IF m < 11 THEN m + 2 ELSE m - 10,
   day |-> d3]

Mjd2DateB(y2, x3) ==
  Mjd2DateC(y2, CDiv(x3, 153) + 1, CDiv(CMod(x3, 153), 5) + 1)

Mjd2DateA(y1, x2) ==
  Mjd2DateB(CDiv(x2, 1461) + y1, 5 * (CDiv(CMod(x2, 1461), 4) + 1) - 3)

Mjd2DateX(x1) ==
  Mjd2DateA(CDiv(x1, 146097) * 100, 4 * CDiv(CMod(x1, 146097), 4) + 3)

mjd2date(mjd) == Mjd2DateX(4 * (mjd + 2400001) - 6884477)

(***************************************************************************)
(* The container oi_fits.                                                  *)
(***************************************************************************)
NoHash == [k \in {} |-> NULL]

g_hash_table_lookup(hash, key) ==
  IF key \in DOMAIN hash THEN hash[key] ELSE NULL

g_hash_table_insert(hash, key, value) ==
  [k \in DOMAIN hash \cup {key} |-> IF k = key THEN value ELSE hash[k]]

BlankHeader ==
  [origin |-> "", date_obs |-> <<>>, telescop |-> "", instrume |-> "",
   insmode |-> "", object |-> "", referenc |-> "", prog_id |-> "",
   procsoft |-> "", obstech |-> ""]

\* init_oi_fits: the empty container
init_oi_fits ==
  [header |-> BlankHeader,
   targets |-> [revision |-> 2, ntarget |-> 0, targ |-> <<>>,
                usecategory |-> FALSE],
   numArray |-> 0, numWavelength |-> 0, numCorr |-> 0, numPolar |-> 0,
   numVis |-> 0, numVis2 |-> 0, numT3 |-> 0, numSpectrum |-> 0,
   arrayList |-> <<>>, wavelengthList |-> <<>>, corrList |-> <<>>,
   polarList |-> <<>>, visList |-> <<>>, vis2List |-> <<>>,
   t3List |-> <<>>, spectrumList |-> <<>>,
   arrayHash |-> NoHash, wavelengthHash |-> NoHash, corrHash |-> NoHash]

\* position of the first table of the list whose member `key` equals name
FindFirst(list, key, name) ==
  IF \E i \in 1..Len(list) : list[i][key] = name
  THEN CHOOSE i \in 1..Len(list) :
         /\ list[i][key] = name
         /\ \A j \in 1..(i - 1) : list[j][key] # name
  ELSE NULL

FindArrayOrFirst(pOi, arrname) ==
  IF FindFirst(pOi.arrayList, "arrname", arrname) # NULL
  THEN FindFirst(pOi.arrayList, "arrname", arrname)
  ELSE IF pOi.arrayList # <<>> THEN 1 ELSE NULL

find_oi_array(pOi, arrname) == FindFirst(pOi.arrayList, "arrname", arrname)

find_oi_wavelength(pOi, insname) ==
  FindFirst(pOi.wavelengthList, "insname", insname)

find_oi_corr(pOi, corrname) == FindFirst(pOi.corrList, "corrname", corrname)

oi_fits_lookup_array(pOi, arrname) ==
  g_hash_table_lookup(pOi.arrayHash, arrname)

oi_fits_lookup_wavelength(pOi, insname) ==
  g_hash_table_lookup(pOi.wavelengthHash, insname)

oi_fits_lookup_corr(pOi, corrname) ==
  g_hash_table_lookup(pOi.corrHash, corrname)

\* RETURN_VAL_IF_BAD_TAB_REVISION: does every table of the list declare rev
FirstRevisionOk(tabList, rev) ==
  tabList = <<>> \/ tabList[1].revision = rev

RevisionOk(tabList, rev) ==
  \A i \in 1..Len(tabList) : tabList[i].revision = rev

\* a check that takes every container for one of version 1
AnyRevisionIsOne(pOi) == TRUE

is_oi_fits_one(pOi) ==
  /\ pOi.targets.revision = 1
  /\ RevisionOk(pOi.arrayList, 1)
  /\ RevisionOk(pOi.wavelengthList, 1)
  /\ RevisionOk(pOi.visList, 1)
  /\ RevisionOk(pOi.vis2List, 1)
  /\ RevisionOk(pOi.t3List, 1)

is_oi_fits_two(pOi) ==
  /\ pOi.targets.revision = 2
  /\ RevisionOk(pOi.arrayList, 2)
  /\ RevisionOk(pOi.wavelengthList, 2)
  /\ RevisionOk(pOi.corrList, 1)
  /\ RevisionOk(pOi.polarList, 1)
  /\ RevisionOk(pOi.visList, 2)
  /\ RevisionOk(pOi.vis2List, 2)
  /\ RevisionOk(pOi.t3List, 2)
  /\ RevisionOk(pOi.spectrumList, 1)

\* the test of min_mjd's loops: the sscanf result got and the running minimum
EarlierMjd(got, mjd, minMjd) ==
  IF got.n = 3 /\ mjd < minMjd THEN mjd ELSE minMjd

TableMjd(got, minMjd) ==
  EarlierMjd(got, date2mjd(got.year, got.month, got.day), minMjd)

\* min_mjd's while loops over a list of tables, starting from minMjd
RECURSIVE MinMjdOver(_, _)
MinMjdOver(list, minMjd) ==
  IF list = <<>> THEN minMjd
  ELSE MinMjdOver(Tail(list), TableMjd(ScanDate(Head(list).date_obs), minMjd))

min_mjd(pOi) ==
  MinMjdOver(pOi.visList \o pOi.vis2List \o pOi.t3List \o pOi.spectrumList,
             100000)

\* mjd2date's results printed into header.date_obs
HeaderDate(date) == PrintDate(date.year, date.month, date.day)

\* set_oi_header with INSTRUME treated as TELESCOP is: "UNKNOWN" for no table
SetHeaderUnknownInstrume(pOi) ==
  LET telescop == IF pOi.numArray = 0 THEN "UNKNOWN"
                  ELSE IF pOi.numArray = 1 THEN pOi.arrayList[1].arrname
                  ELSE "MULTIPLE"
      instrume == IF pOi.numWavelength = 0 THEN "UNKNOWN"
                  ELSE IF pOi.numWavelength = 1
                       THEN pOi.wavelengthList[1].insname
                  ELSE "MULTIPLE"
      object == IF pOi.targets.ntarget = 1 THEN pOi.targets.targ[1].target
                ELSE "MULTIPLE"
  IN  [pOi EXCEPT !.header.telescop = telescop,
                  !.header.instrume = instrume,
                  !.header.object = object,
                  !.header.date_obs = HeaderDate(mjd2date(min_mjd(pOi)))]

set_oi_header(pOi) ==
  LET telescop == IF pOi.numArray = 0 THEN "UNKNOWN"
                  ELSE IF pOi.numArray = 1 THEN pOi.arrayList[1].arrname
                  ELSE "MULTIPLE"
      instrume == IF pOi.numWavelength = 1 THEN pOi.wavelengthList[1].insname
                  ELSE "MULTIPLE"
      object == IF pOi.targets.ntarget = 1 THEN pOi.targets.targ[1].target
                ELSE "MULTIPLE"
  IN  [pOi EXCEPT !.header.telescop = telescop,
                  !.header.instrume = instrume,
                  !.header.object = object,
                  !.header.date_obs = HeaderDate(mjd2date(min_mjd(pOi)))]

(***************************************************************************)
(* Tables, files and the inputs the model draws them from.  A table keeps  *)
(* its keywords; `data` stands for its rows, which oifile.c never looks at.*)
(***************************************************************************)
Date1 == <<"2", "0", "2", "0", "-", "0", "5", "-", "0", "1">>
Date0 == <<"1", "9", "9", "9", "-", "1", "2", "-", "3", "1">>

KeyTable(ext, key, name) ==
  [extname |-> ext, tab |-> [revision |-> 1, data |-> 0] @@ (key :> name)]

DataTable(ext, name) ==
  [extname |-> ext,
   tab |-> [revision |-> 1, date_obs |-> Date1, arrname |-> name,
            insname |-> name, corrname |-> name, data |-> 0]]

\* a table of another revision of the standard
Revised(kind, rev) == [kind EXCEPT !.tab.revision = rev]

\* the kinds of table a file or a container is made of; the t3 table is of
\* revision 2, the others of revision 1
Kinds ==
  {KeyTable("OI_ARRAY", "arrname", "A"), KeyTable("OI_ARRAY", "arrname", "B"),
   KeyTable("OI_WAVELENGTH", "insname", "A"),
   KeyTable("OI_CORR", "corrname", "A"),
   KeyTable("OI_POLAR", "arrname", "A"),
   DataTable("OI_VIS", "A"), DataTable("OI_VIS", ""),
   DataTable("OI_VIS2", "A"), Revised(DataTable("OI_T3", "A"), 2),
   DataTable("OI_SPECTRUM", "A")}

SeqsUpTo(S, n) == UNION {[1..k -> S] : k \in 0..n}

\* a sequence of HDUs: the rows of the i-th table are told apart by data = i
Hdus(layout) ==
  [i \in 1..Len(layout) |->
     [extname |-> layout[i].extname, extver |-> 1,
      tab |-> [layout[i].tab EXCEPT !.data = i]]]

Layouts == {Hdus(l) : l \in SeqsUpTo(Kinds, MaxBlocks)}

IsCanonical(hdus) ==
  \A i, j \in 1..Len(hdus) :
     i < j => TypeIndex(hdus[i].extname) <= TypeIndex(hdus[j].extname)

TargetTables ==
  {[revision |-> r, ntarget |-> 1,
    targ |-> <<[target_id |-> 1, target |-> "SIRIUS"]>>,
    usecategory |-> FALSE] : r \in {1, 2}}

UserHeader ==
  [origin |-> "ESO", date_obs |-> Date0, telescop |-> "VLTI",
   instrume |-> "AMBER", insmode |-> "LR", object |-> "VEGA",
   referenc |-> "", prog_id |-> "P1", procsoft |-> "", obstech |-> ""]

NoFile == [exists |-> FALSE, header |-> BlankHeader,
           targets |-> init_oi_fits.targets, hdus |-> <<>>]

NewFile == [NoFile EXCEPT !.exists = TRUE]

\* the tables of one type among the HDUs, in file order
TablesOf(hdus, ext) ==
  LET sel == SelectSeq(hdus, LAMBDA h : h.extname = ext)
  IN  [i \in 1..Len(sel) |-> sel[i].tab]

\* a container as client code populates it before writing
Container(header, targets, hdus) ==
  [init_oi_fits EXCEPT
     !.header = header, !.targets = targets,
     !.arrayList = TablesOf(hdus, "OI_ARRAY"),
     !.wavelengthList = TablesOf(hdus, "OI_WAVELENGTH"),
     !.corrList = TablesOf(hdus, "OI_CORR"),
     !.polarList = TablesOf(hdus, "OI_POLAR"),
     !.visList = TablesOf(hdus, "OI_VIS"),
     !.vis2List = TablesOf(hdus, "OI_VIS2"),
     !.t3List = TablesOf(hdus, "OI_T3"),
     !.spectrumList = TablesOf(hdus, "OI_SPECTRUM"),
     !.numArray = Len(TablesOf(hdus, "OI_ARRAY")),
     !.numWavelength = Len(TablesOf(hdus, "OI_WAVELENGTH")),
     !.numCorr = Len(TablesOf(hdus, "OI_CORR")),
     !.numPolar = Len(TablesOf(hdus, "OI_POLAR")),
     !.numVis = Len(TablesOf(hdus, "OI_VIS")),
     !.numVis2 = Len(TablesOf(hdus, "OI_VIS2")),
     !.numT3 = Len(TablesOf(hdus, "OI_T3")),
     !.numSpectrum = Len(TablesOf(hdus, "OI_SPECTRUM"))]

\* *pOi before read_oi_fits: "pointer to uninitialised file data struct".
\* No member is read before read_oi_fits or the codec has set it.
Uninitialised ==
  [init_oi_fits EXCEPT
     !.numArray = -1, !.numWavelength = -1, !.numCorr = -1, !.numPolar = -1,
     !.numVis = -1, !.numVis2 = -1, !.numT3 = -1, !.numSpectrum = -1]

(***************************************************************************)
(* The codec, at its interface.                                            *)
(***************************************************************************)
\* what a routine entered with status `in` may leave in *pStatus
OutcomesIgnoringStatus(fn, in) == {0, fits_error[fn]}

Outcomes(fn, in) == IF in # 0 THEN {in} ELSE {0, fits_error[fn]}

\* the record of one codec call
Call(fn, ext, in, out, tab, ver) ==
  [fn |-> fn, ext |-> ext, in |-> in, out |-> out, tab |-> tab, extver |-> ver]

\* the first HDU after pos named ext, 0 when there is none
NextHdu(hdus, pos, ext) ==
  IF \E i \in (pos + 1)..Len(hdus) : hdus[i].extname = ext
  THEN CHOOSE i \in (pos + 1)..Len(hdus) :
         /\ hdus[i].extname = ext
         /\ \A j \in (pos + 1)..(i - 1) : hdus[j].extname # ext
  ELSE 0

\* write_oi_<type>(fptr, tab, extver, pStatus) leaving status out
WriteHdu(f, ext, tab, ver, out) ==
  IF out = 0
  THEN [f EXCEPT !.hdus = Append(@, [extname |-> ext, extver |-> ver,
                                      tab |-> tab])]
  ELSE f

(***************************************************************************)
(* Initial states: a caller about to write a container to a new file (and  *)
(* then to load that file), or a caller about to load a file found on disk.*)
(***************************************************************************)
InitWrite ==
  /\ pc = "write_oi_fits"
  /\ status \in EntryStatus
  /\ file \in {NoFile, NewFile}
  /\ \E t \in TargetTables, h \in Layouts :
        IsCanonical(h) /\ oi = Container(UserHeader, t, h)

InitRead ==
  /\ pc = "read_oi_fits"
  /\ status \in EntryStatus
  /\ \E t \in TargetTables, h \in Layouts :
        file = [exists |-> TRUE, header |-> UserHeader, targets |-> t,
                hdus |-> h]
  /\ oi = init_oi_fits

Init ==
  /\ InitWrite \/ InitRead
  /\ hdupos = 0 /\ link = 0 /\ extver = 0 /\ pass = 0
  /\ rd = Uninitialised
  /\ calls = <<>>
  /\ heap = <<>> /\ src = NULL /\ cpy = NULL /\ ret = NULL /\ scans = <<>>

(***************************************************************************)
(* write_oi_fits                                                           *)
(***************************************************************************)
\* the table type the p-th WRITE_OI_LIST of write_oi_fits is expanded for
WriteTypeVis2First(p) ==
  IF p = 5 THEN TableTypes[6] ELSE IF p = 6 THEN TableTypes[5]
  ELSE TableTypes[p]

WriteType(p) == TableTypes[p]

\* "extver = 1" at the head of WRITE_OI_LIST
SharedExtver(ver) == IF ver = 0 THEN 1 ELSE ver

ListExtver(ver) == 1

\* entry check and fits_create_file
WriteCreate ==
  /\ pc = "write_oi_fits"
  /\ IF status # 0
     THEN /\ pc' = "written"
          /\ UNCHANGED <<status, file, calls>>
     ELSE \E out \in (IF file.exists THEN {fits_error.fits_create_file}
                      ELSE Outcomes("fits_create_file", status)) :
            /\ status' = out
            /\ calls' = Append(calls,
                          Call("fits_create_file", "", status, out, 0, 0))
            /\ file' = IF out = 0 THEN NewFile ELSE file
            /\ pc' = IF out # 0 THEN "written" ELSE "write_oi_header"
  /\ UNCHANGED <<hdupos, oi, link, extver, pass, rd>>
  /\ UNCHANGED <<dupvars, ret, scans>>

WriteHeader ==
  /\ pc = "write_oi_header"
  /\ \E out \in Outcomes("write_oi_header", status) :
        /\ status' = out
        /\ calls' = Append(calls,
                      Call("write_oi_header", "", status, out, 0, 0))
        /\ file' = IF out = 0 THEN [file EXCEPT !.header = oi.header] ELSE file
  /\ pc' = "write_oi_target"
  /\ UNCHANGED <<hdupos, oi, link, extver, pass, rd>>
  /\ UNCHANGED <<dupvars, ret, scans>>

WriteTarget ==
  /\ pc = "write_oi_target"
  /\ \E out \in Outcomes("write_oi_target", status) :
        /\ status' = out
        /\ calls' = Append(calls,
                      Call("write_oi_target", "", status, out, 0, 0))
        /\ file' = IF out = 0 THEN [file EXCEPT !.targets = oi.targets]
                   ELSE file
  /\ pc' = "WRITE_OI_LIST"
  /\ pass' = 1 /\ link' = 1 /\ extver' = ListExtver(extver)
  /\ UNCHANGED <<hdupos, oi, rd>>
  /\ UNCHANGED <<dupvars, ret, scans>>

\* one turn of the p-th WRITE_OI_LIST loop: one write call, or the loop's end
\* and the head of the next WRITE_OI_LIST
WriteList(p) ==
  /\ pc = "WRITE_OI_LIST" /\ pass = p
  /\ LET list == oi[ListOf[WriteType(p)]]
     IN  IF link <= Len(list)
         THEN \E out \in Outcomes("write_table", status) :
                /\ status' = out
                /\ calls' = Append(calls,
                     Call("write_table", WriteType(p), status, out, link,
                          extver))
                /\ file' = WriteHdu(file, WriteType(p), list[link], extver,
                                    out)
                /\ link' = link + 1
                /\ extver' = extver + 1
                /\ UNCHANGED <<pc, pass>>
         ELSE /\ IF p < NumTypes
                 THEN /\ pass' = p + 1 /\ link' = 1
                      /\ extver' = ListExtver(extver)
                      /\ pc' = pc
                 ELSE /\ pc' = "fits_close_file"
                      /\ UNCHANGED <<pass, link, extver>>
              /\ UNCHANGED <<status, file, calls>>
  /\ UNCHANGED <<hdupos, oi, rd>>
  /\ UNCHANGED <<dupvars, ret, scans>>

WriteArrays == WriteList(1)
WriteWavelengths == WriteList(2)
WriteCorrs == WriteList(3)
WritePolars == WriteList(4)
WriteVis == WriteList(5)
WriteVis2 == WriteList(6)
WriteT3 == WriteList(7)
WriteSpectra == WriteList(8)

\* fits_close_file and the return of write_oi_fits
WriteClose ==
  /\ pc = "fits_close_file"
  /\ \E out \in Outcomes("fits_close_file", status) :
        /\ status' = out
        /\ calls' = Append(calls,
                      Call("fits_close_file", "", status, out, 0, 0))
  /\ pc' = "written"
  /\ UNCHANGED <<file, hdupos, oi, link, extver, pass, rd>>
  /\ UNCHANGED <<dupvars, ret, scans>>

WriteNext ==
  \/ WriteCreate \/ WriteHeader \/ WriteTarget
  \/ WriteArrays \/ WriteWavelengths \/ WriteCorrs \/ WritePolars
  \/ WriteVis \/ WriteVis2 \/ WriteT3 \/ WriteSpectra
  \/ WriteClose

(***************************************************************************)
(* read_oi_fits                                                            *)
(***************************************************************************)
\* the table type read by the p-th pass of read_oi_fits
ReadType(p) == TableTypes[p]

\* fits_movabs_hdu(fptr, 1, ...): "back to start"
NoRewind(pos) == pos

fits_movabs_hdu(pos) == 0

\* "if(*pStatus != END_OF_FILE) goto except" after a pass's loop
KeepEOF(st) == st
NeverFailed(st) == FALSE

PassFailed(st) == st # END_OF_FILE

\* "*pStatus = 0;  reset EOF" after a pass
ResetEOF(st) == 0

\* what read_next_oi_<type> may leave in *pStatus: n is the next HDU of the type
ReadOutcomes(in, n) ==
  IF in # 0 THEN {in}
  ELSE IF n = 0 THEN {END_OF_FILE}
  ELSE {0, fits_error.read_next}

\* g_list_append and the count of the type
PrependTable(pOi, ext, tab) ==
  [pOi EXCEPT ![ListOf[ext]] = <<tab>> \o @, ![NumOf[ext]] = @ + 1]

AppendTable(pOi, ext, tab) ==
  [pOi EXCEPT ![ListOf[ext]] = Append(@, tab), ![NumOf[ext]] = @ + 1]

\* hash-tabling the array, wavelength and corr table a data table names
HashArray(pOi, tab) ==
  IF tab.arrname # "" /\ g_hash_table_lookup(pOi.arrayHash, tab.arrname) = NULL
  THEN [pOi EXCEPT !.arrayHash =
          g_hash_table_insert(@, tab.arrname, find_oi_array(pOi, tab.arrname))]
  ELSE pOi

HashWavelength(pOi, tab) ==
  IF g_hash_table_lookup(pOi.wavelengthHash, tab.insname) = NULL
  THEN [pOi EXCEPT !.wavelengthHash =
          g_hash_table_insert(@, tab.insname,
                              find_oi_wavelength(pOi, tab.insname))]
  ELSE pOi

HashCorr(pOi, tab) ==
  IF tab.corrname # "" /\ g_hash_table_lookup(pOi.corrHash, tab.corrname) = NULL
  THEN [pOi EXCEPT !.corrHash =
          g_hash_table_insert(@, tab.corrname, find_oi_corr(pOi, tab.corrname))]
  ELSE pOi

\* the body of each pass's loop after a successful read_next_oi_<type>
LoadKeyTable(pOi, ext, tab) == AppendTable(pOi, ext, tab)

LoadVis(pOi, pVis) ==
  HashCorr(HashWavelength(HashArray(AppendTable(pOi, "OI_VIS", pVis), pVis),
                          pVis), pVis)

LoadVis2(pOi, pVis2) ==
  HashCorr(HashWavelength(HashArray(AppendTable(pOi, "OI_VIS2", pVis2), pVis2),
                          pVis2), pVis2)

LoadT3(pOi, pT3) ==
  HashCorr(HashWavelength(HashArray(AppendTable(pOi, "OI_T3", pT3), pT3),
                          pT3), pT3)

LoadSpectrum(pOi, pSpectrum) ==
  HashWavelength(HashArray(AppendTable(pOi, "OI_SPECTRUM", pSpectrum),
                           pSpectrum), pSpectrum)

LoadTable(pOi, ext, tab) ==
  CASE ext = "OI_VIS" -> LoadVis(pOi, tab)
    [] ext = "OI_VIS2" -> LoadVis2(pOi, tab)
    [] ext = "OI_T3" -> LoadT3(pOi, tab)
    [] ext = "OI_SPECTRUM" -> LoadSpectrum(pOi, tab)
    [] OTHER -> LoadKeyTable(pOi, ext, tab)

\* the find_oi_* calls made by the body of a pass's loop for one table: a
\* call is made when the name's lookup in the hash table gives NULL
Scan(fn, name) == [fn |-> fn, name |-> name]

ArrayScans(pOi, tab) ==
  IF tab.arrname # "" /\ g_hash_table_lookup(pOi.arrayHash, tab.arrname) = NULL
  THEN <<Scan("find_oi_array", tab.arrname)>>
  ELSE <<>>

WavelengthScans(pOi, tab) ==
  IF g_hash_table_lookup(pOi.wavelengthHash, tab.insname) = NULL
  THEN <<Scan("find_oi_wavelength", tab.insname)>>
  ELSE <<>>

CorrScans(pOi, tab) ==
  IF tab.corrname # "" /\ g_hash_table_lookup(pOi.corrHash, tab.corrname) = NULL
  THEN <<Scan("find_oi_corr", tab.corrname)>>
  ELSE <<>>

Scans(pOi, ext, tab) ==
  CASE ext \in {"OI_VIS", "OI_VIS2", "OI_T3"} ->
         ArrayScans(pOi, tab) \o WavelengthScans(pOi, tab)
           \o CorrScans(pOi, tab)
    [] ext = "OI_SPECTRUM" ->
         ArrayScans(pOi, tab) \o WavelengthScans(pOi, tab)
    [] OTHER -> <<>>

\* entry check, fits_open_file and the empty lists and hash tables
ReadOpen ==
  /\ pc \in {"read_oi_fits", "written"}
  /\ IF status # 0
     THEN /\ pc' = "done"
          /\ UNCHANGED <<status, calls, rd, hdupos>>
     ELSE \E out \in (IF file.exists THEN Outcomes("fits_open_file", status)
                      ELSE {fits_error.fits_open_file}) :
            /\ status' = out
            /\ calls' = Append(calls,
                          Call("fits_open_file", "", status, out, 0, 0))
            /\ IF out # 0
               THEN pc' = "done" /\ UNCHANGED <<rd, hdupos>>
               ELSE /\ pc' = "read_oi_header"
                    /\ hdupos' = 0
                    /\ rd' = [rd EXCEPT
                         !.arrayHash = NoHash, !.wavelengthHash = NoHash,
                         !.corrHash = NoHash,
                         !.arrayList = <<>>, !.wavelengthList = <<>>,
                         !.corrList = <<>>, !.polarList = <<>>,
                         !.visList = <<>>, !.vis2List = <<>>,
                         !.t3List = <<>>, !.spectrumList = <<>>]
  /\ UNCHANGED <<file, oi, link, extver, pass>>
  /\ UNCHANGED <<dupvars, ret, scans>>

ReadHeader ==
  /\ pc = "read_oi_header"
  /\ \E out \in Outcomes("read_oi_header", status) :
        /\ status' = out
        /\ calls' = Append(calls,
                      Call("read_oi_header", "", status, out, 0, 0))
        /\ rd' = IF out = 0 THEN [rd EXCEPT !.header = file.header] ELSE rd
  /\ pc' = "read_oi_target"
  /\ UNCHANGED <<file, hdupos, oi, link, extver, pass>>
  /\ UNCHANGED <<dupvars, ret, scans>>

ReadTarget ==
  /\ pc = "read_oi_target"
  /\ \E out \in Outcomes("read_oi_target", status) :
        /\ status' = out
        /\ calls' = Append(calls,
                      Call("read_oi_target", "", status, out, 0, 0))
        /\ rd' = IF out = 0 THEN [rd EXCEPT !.targets = file.targets] ELSE rd
        /\ IF out # 0 THEN pc' = "done" /\ pass' = pass
           ELSE pc' = "fits_movabs_hdu" /\ pass' = 1
  /\ UNCHANGED <<file, hdupos, oi, link, extver>>
  /\ UNCHANGED <<dupvars, ret, scans>>

\* the head of a pass: the count is zeroed and the file rewound
ReadRewind ==
  /\ pc = "fits_movabs_hdu"
  /\ \E out \in Outcomes("fits_movabs_hdu", status) :
        /\ status' = out
        /\ calls' = Append(calls,
                      Call("fits_movabs_hdu", ReadType(pass), status, out, 0, 0))
        /\ hdupos' = IF out = 0 THEN fits_movabs_hdu(hdupos) ELSE hdupos
  /\ rd' = [rd EXCEPT ![NumOf[ReadType(pass)]] = 0]
  /\ pc' = "read_next"
  /\ UNCHANGED <<file, oi, link, extver, pass>>
  /\ UNCHANGED <<dupvars, ret, scans>>

\* one turn of the p-th pass's loop: read_next_oi_<type>, then either the
\* loop body or the break, the EOF test and the reset
ReadPass(p) ==
  /\ pc = "read_next" /\ pass = p
  /\ LET ext == ReadType(p)
         n == NextHdu(file.hdus, hdupos, ext)
     IN  \E out \in ReadOutcomes(status, n) :
           /\ calls' = Append(calls, Call("read_next", ext, status, out,
                                          IF out = 0 THEN n ELSE 0, 0))
           /\ IF out = 0
              THEN /\ rd' = LoadTable(rd, ext, file.hdus[n].tab)
                   /\ scans' = scans \o Scans(rd, ext, file.hdus[n].tab)
                   /\ hdupos' = n
                   /\ status' = out
                   /\ UNCHANGED <<pc, pass>>
              ELSE /\ hdupos' = IF status = 0 /\ n = 0 THEN Len(file.hdus)
                                ELSE hdupos
                   /\ rd' = rd
                   /\ scans' = scans
                   /\ IF PassFailed(out)
                      THEN status' = out /\ pc' = "done" /\ pass' = pass
                      ELSE /\ status' = ResetEOF(out)
                           /\ IF p < NumTypes
                              THEN pc' = "fits_movabs_hdu" /\ pass' = p + 1
                              ELSE pc' = "read_finish" /\ pass' = pass
  /\ UNCHANGED <<file, oi, link, extver>>
  /\ UNCHANGED <<dupvars, ret>>

ReadArrays == ReadPass(1)
ReadWavelengths == ReadPass(2)
ReadCorrs == ReadPass(3)
ReadPolars == ReadPass(4)
ReadVis == ReadPass(5)
ReadVis2 == ReadPass(6)
ReadT3 == ReadPass(7)
ReadSpectra == ReadPass(8)

\* is_oi_fits_one / set_oi_header, fits_close_file and the return
ReadFinish ==
  /\ pc = "read_finish"
  /\ rd' = IF is_oi_fits_one(rd) THEN set_oi_header(rd) ELSE rd
  /\ \E out \in Outcomes("fits_close_file", status) :
        /\ status' = out
        /\ calls' = Append(calls,
                      Call("fits_close_file", "", status, out, 0, 0))
  /\ pc' = "done"
  /\ UNCHANGED <<file, hdupos, oi, link, extver, pass>>
  /\ UNCHANGED <<dupvars, ret, scans>>

ReadNext ==
  \/ ReadOpen \/ ReadHeader \/ ReadTarget \/ ReadRewind
  \/ ReadArrays \/ ReadWavelengths \/ ReadCorrs \/ ReadPolars
  \/ ReadVis \/ ReadVis2 \/ ReadT3 \/ ReadSpectra
  \/ ReadFinish

Next == WriteNext \/ ReadNext

Spec == Init /\ [][Next]_vars

(***************************************************************************)
(* Deep copy.  Memory is a sequence of allocations, a pointer is the       *)
(* position of one of them and NULL is 0; an allocation holds an array of  *)
(* numbers or, for the record array of a data table, an array of record    *)
(* structs whose fields point at further arrays.                           *)
(***************************************************************************)
MaxWave == 2
MaxRec == 2
MaxStep == 1

\* MEMDUP(dest, src, size): malloc and memcpy of the first n elements
MEMDUP(mem, p, n) == Append(mem, SubSeq(mem[p], 1, n))

\* MEMDUP(pOut->to, pIn->from, n * sizeof(pIn->to[0]))
Copy(to, from, n) == [to |-> to, from |-> from, n |-> n]

CopyInto(st, in, c) ==
  [heap |-> MEMDUP(st.heap, in[c.from], c.n),
   out |-> [st.out EXCEPT ![c.to] = Len(st.heap) + 1]]

RECURSIVE CopyAll(_, _, _)
CopyAll(st, in, copies) ==
  IF copies = <<>> THEN st
  ELSE CopyAll(CopyInto(st, in, Head(copies)), in, Tail(copies))

\* MEMDUP(pOutTab, pInTab, sizeof(*pInTab)) followed by the table's arrays
CopyTable(mem, pInTab, copies) ==
  CopyAll([heap |-> mem, out |-> pInTab], pInTab, copies)

StoreRecord(st, i, r) ==
  [heap |-> [r.heap EXCEPT ![st.out.record][i] = r.out], out |-> st.out]

\* the body of the loop over the records: pOutRec = &pOutTab->record[i],
\* pInRec = &pInTab->record[i]
CopyRecord(st, pInTab, i, copies) ==
  StoreRecord(st, i,
    CopyAll([heap |-> st.heap, out |-> st.heap[st.out.record][i]],
            st.heap[pInTab.record][i], copies))

RECURSIVE CopyRecords(_, _, _, _)
CopyRecords(st, pInTab, i, copies) ==
  IF i > pInTab.numrec THEN st
  ELSE CopyRecords(CopyRecord(st, pInTab, i, copies), pInTab, i + 1, copies)

RecordCopy(pInTab) == <<Copy("record", "record", pInTab.numrec)>>

dup_oi_target(mem, pInTab) ==
  CopyTable(mem, pInTab, <<Copy("targ", "targ", pInTab.ntarget)>>)

dup_oi_array(mem, pInTab) ==
  CopyTable(mem, pInTab, <<Copy("elem", "elem", pInTab.nelement)>>)

dup_oi_wavelength(mem, pInTab) ==
  CopyTable(mem, pInTab,
    <<Copy("eff_wave", "eff_wave", pInTab.nwave),
      Copy("eff_band", "eff_band", pInTab.nwave)>>)

dup_oi_corr(mem, pInTab) ==
  CopyTable(mem, pInTab,
    <<Copy("iindx", "iindx", pInTab.ncorr),
      Copy("jindx", "jindx", pInTab.ncorr),
      Copy("corr", "corr", pInTab.ncorr)>>)

VisCopies(pInTab) ==
  <<Copy("visamp", "visamp", pInTab.nwave),
    Copy("visamperr", "visamperr", pInTab.nwave),
    Copy("visphi", "visphi", pInTab.nwave),
    Copy("visphierr", "visphierr", pInTab.nwave),
    Copy("flag", "flag", pInTab.nwave)>>
  \o (IF pInTab.usevisrefmap
      THEN <<Copy("visrefmap", "visrefmap", pInTab.nwave * pInTab.nwave)>>
      ELSE <<>>)
  \o (IF pInTab.usecomplex
      THEN <<Copy("rvis", "rvis", pInTab.nwave),
             Copy("rviserr", "rviserr", pInTab.nwave),
             Copy("ivis", "ivis", pInTab.nwave),
             Copy("iviserr", "rviserr", pInTab.nwave)>>
      ELSE <<>>)

dup_oi_vis(mem, pInTab) ==
  CopyRecords(CopyTable(mem, pInTab, RecordCopy(pInTab)), pInTab, 1,
              VisCopies(pInTab))

dup_oi_vis2(mem, pInTab) ==
  CopyRecords(CopyTable(mem, pInTab, RecordCopy(pInTab)), pInTab, 1,
    <<Copy("vis2data", "vis2data", pInTab.nwave),
      Copy("vis2err", "vis2err", pInTab.nwave),
      Copy("flag", "flag", pInTab.nwave)>>)

dup_oi_t3(mem, pInTab) ==
  CopyRecords(CopyTable(mem, pInTab, RecordCopy(pInTab)), pInTab, 1,
    <<Copy("t3amp", "t3amp", pInTab.nwave),
      Copy("t3amperr", "t3amperr", pInTab.nwave),
      Copy("t3phi", "t3phi", pInTab.nwave),
      Copy("t3phierr", "t3phierr", pInTab.nwave),
      Copy("flag", "flag", pInTab.nwave)>>)

dup_oi_spectrum(mem, pInTab) ==
  CopyRecords(CopyTable(mem, pInTab, RecordCopy(pInTab)), pInTab, 1,
    <<Copy("fluxdata", "fluxdata", pInTab.nwave),
      Copy("fluxerr", "fluxerr", pInTab.nwave)>>)

(***************************************************************************)
(* The tables handed to the copy routines.  An array of a table is         *)
(* described by its field, its length and whether it is allocated; the     *)
(* k-th array of record r holds step * k + r + i at element i, so that     *)
(* with step 0 the arrays of a record hold the same numbers and with       *)
(* step 1 no two of them do.                                               *)
(***************************************************************************)
Arr(field, n, present) == [field |-> field, n |-> n, present |-> present]

Fill(k, r, n, step) == [i \in 1..n |-> step * k + r + i]

NewArray(st, a, k, r, step) ==
  IF a.present
  THEN [heap |-> Append(st.heap, Fill(k, r, a.n, step)),
        out |-> (a.field :> (Len(st.heap) + 1)) @@ st.out]
  ELSE [heap |-> st.heap, out |-> (a.field :> NULL) @@ st.out]

RECURSIVE NewArrays(_, _, _, _, _)
NewArrays(st, arrs, k, r, step) ==
  IF k > Len(arrs) THEN st
  ELSE NewArrays(NewArray(st, arrs[k], k, r, step), arrs, k + 1, r, step)

AddRecord(st, rec) == [heap |-> rec.heap, out |-> Append(st.out, rec.out)]

RECURSIVE NewRecords(_, _, _, _, _)
NewRecords(st, r, numrec, arrs, step) ==
  IF r > numrec THEN st
  ELSE NewRecords(
         AddRecord(st, NewArrays([heap |-> st.heap, out |-> <<>>],
                                 arrs, 1, r, step)),
         r + 1, numrec, arrs, step)

\* a data table: its records, then the record array that holds them
NewDataTable(scalars, arrs, step) ==
  LET recs == NewRecords([heap |-> <<>>, out |-> <<>>], 1, scalars.numrec,
                         arrs, step)
  IN  [heap |-> Append(recs.heap, recs.out),
       out |-> ("record" :> (Len(recs.heap) + 1)) @@ scalars]

NewKeyTable(scalars, arrs, step) ==
  NewArrays([heap |-> <<>>, out |-> scalars], arrs, 1, 0, step)

VisArrays(n, usevisrefmap, usecomplex, stale) ==
  <<Arr("visamp", n, TRUE), Arr("visamperr", n, TRUE),
    Arr("visphi", n, TRUE), Arr("visphierr", n, TRUE), Arr("flag", n, TRUE),
    Arr("visrefmap", n * n, usevisrefmap \/ stale),
    Arr("rvis", n, usecomplex \/ stale),
    Arr("rviserr", n, usecomplex \/ stale),
    Arr("ivis", n, usecomplex \/ stale),
    Arr("iviserr", n, usecomplex \/ stale)>>

DupTypes ==
  {"oi_target", "oi_array", "oi_wavelength", "oi_corr", "oi_vis", "oi_vis2",
   "oi_t3", "oi_spectrum"}

SourceTable(type, n, numrec, usevisrefmap, usecomplex, stale, step) ==
  CASE type = "oi_target" ->
         NewKeyTable([type |-> type, revision |-> 1, ntarget |-> n],
                     <<Arr("targ", n, TRUE)>>, step)
    [] type = "oi_array" ->
         NewKeyTable([type |-> type, revision |-> 1, nelement |-> n],
                     <<Arr("elem", n, TRUE)>>, step)
    [] type = "oi_wavelength" ->
         NewKeyTable([type |-> type, revision |-> 1, nwave |-> n],
                     <<Arr("eff_wave", n, TRUE), Arr("eff_band", n, TRUE)>>,
                     step)
    [] type = "oi_corr" ->
         NewKeyTable([type |-> type, revision |-> 1, ncorr |-> n],
                     <<Arr("iindx", n, TRUE), Arr("jindx", n, TRUE),
                       Arr("corr", n, TRUE)>>, step)
    [] type = "oi_vis" ->
         NewDataTable([type |-> type, revision |-> 1, nwave |-> n,
                       numrec |-> numrec, usevisrefmap |-> usevisrefmap,
                       usecomplex |-> usecomplex],
                      VisArrays(n, usevisrefmap, usecomplex, stale), step)
    [] type = "oi_vis2" ->
         NewDataTable([type |-> type, revision |-> 1, nwave |-> n,
                       numrec |-> numrec],
                      <<Arr("vis2data", n, TRUE), Arr("vis2err", n, TRUE),
                        Arr("flag", n, TRUE)>>, step)
    [] type = "oi_t3" ->
         NewDataTable([type |-> type, revision |-> 1, nwave |-> n,
                       numrec |-> numrec],
                      <<Arr("t3amp", n, TRUE), Arr("t3amperr", n, TRUE),
                        Arr("t3phi", n, TRUE), Arr("t3phierr", n, TRUE),
                        Arr("flag", n, TRUE)>>, step)
    [] type = "oi_spectrum" ->
         NewDataTable([type |-> type, revision |-> 1, nwave |-> n,
                       numrec |-> numrec],
                      <<Arr("fluxdata", n, TRUE), Arr("fluxerr", n, TRUE)>>,
                      step)

IsDataTable(tab) == "record" \in DOMAIN tab

\* the arrays a table of this shape owns: <<0, field>> is a field of the
\* table, <<r, field>> a field of its r-th record
KeyFields(tab) ==
  CASE tab.type = "oi_target" -> {"targ"}
    [] tab.type = "oi_array" -> {"elem"}
    [] tab.type = "oi_wavelength" -> {"eff_wave", "eff_band"}
    [] tab.type = "oi_corr" -> {"iindx", "jindx", "corr"}
    [] OTHER -> {}

RecordFields(tab) ==
  CASE tab.type = "oi_vis" ->
         {"visamp", "visamperr", "visphi", "visphierr", "flag"}
           \cup (IF tab.usevisrefmap THEN {"visrefmap"} ELSE {})
           \cup (IF tab.usecomplex
                 THEN {"rvis", "rviserr", "ivis", "iviserr"} ELSE {})
    [] tab.type = "oi_vis2" -> {"vis2data", "vis2err", "flag"}
    [] tab.type = "oi_t3" ->
         {"t3amp", "t3amperr", "t3phi", "t3phierr", "flag"}
    [] tab.type = "oi_spectrum" -> {"fluxdata", "fluxerr"}
    [] OTHER -> {}

Nested(tab) ==
  IF IsDataTable(tab)
  THEN (1..tab.numrec) \X RecordFields(tab)
  ELSE {0} \X KeyFields(tab)

\* the allocation a nested array of tab lives in
At(mem, tab, path) ==
  IF path[1] = 0 THEN tab[path[2]] ELSE mem[tab.record][path[1]][path[2]]

InitDup ==
  /\ pc = "dup"
  /\ \E type \in DupTypes, n \in 1..MaxWave, numrec \in 1..MaxRec,
        usevisrefmap \in BOOLEAN, usecomplex \in BOOLEAN, stale \in BOOLEAN,
        step \in 0..MaxStep :
        /\ type # "oi_vis" => ~usevisrefmap /\ ~usecomplex /\ ~stale
        /\ heap = SourceTable(type, n, numrec, usevisrefmap, usecomplex,
                              stale, step).heap
        /\ src = SourceTable(type, n, numrec, usevisrefmap, usecomplex,
                             stale, step).out
  /\ cpy = NULL /\ ret = NULL /\ scans = <<>>
  /\ status = 0 /\ file = NoFile /\ oi = init_oi_fits /\ rd = Uninitialised
  /\ hdupos = 0 /\ link = 0 /\ extver = 0 /\ pass = 0 /\ calls = <<>>

\* the copy routine returns pOutTab
DupReturn(st) ==
  /\ heap' = st.heap
  /\ cpy' = st.out
  /\ pc' = "copied"
  /\ UNCHANGED <<src, iovars, ret>>

DupTarget ==
  pc = "dup" /\ src.type = "oi_target" /\ DupReturn(dup_oi_target(heap, src))

DupArray ==
  pc = "dup" /\ src.type = "oi_array" /\ DupReturn(dup_oi_array(heap, src))

DupWavelength ==
  /\ pc = "dup" /\ src.type = "oi_wavelength"
  /\ DupReturn(dup_oi_wavelength(heap, src))

DupCorr ==
  pc = "dup" /\ src.type = "oi_corr" /\ DupReturn(dup_oi_corr(heap, src))

DupVis ==
  pc = "dup" /\ src.type = "oi_vis" /\ DupReturn(dup_oi_vis(heap, src))

DupVis2 ==
  pc = "dup" /\ src.type = "oi_vis2" /\ DupReturn(dup_oi_vis2(heap, src))

DupT3 ==
  pc = "dup" /\ src.type = "oi_t3" /\ DupReturn(dup_oi_t3(heap, src))

DupSpectrum ==
  /\ pc = "dup" /\ src.type = "oi_spectrum"
  /\ DupReturn(dup_oi_spectrum(heap, src))

\* the holder of the copy overwrites one element of one of its arrays
MutateCopy ==
  /\ pc = "copied"
  /\ \E path \in Nested(cpy) :
        \E i \in 1..Len(heap[At(heap, cpy, path)]) :
           heap' = [heap EXCEPT ![At(heap, cpy, path)][i] = -1]
  /\ pc' = "mutated"
  /\ UNCHANGED <<src, cpy, iovars, ret>>

NextDup ==
  \/ DupTarget \/ DupArray \/ DupWavelength \/ DupCorr
  \/ DupVis \/ DupVis2 \/ DupT3 \/ DupSpectrum
  \/ MutateCopy

SpecDup == InitDup /\ [][NextDup]_vars

(***************************************************************************)
(* The queries and the header synthesis, called by client code on a        *)
(* container it holds: is_oi_fits_one, is_oi_fits_two, set_oi_header and   *)
(* oi_fits_lookup_target.                                                  *)
(***************************************************************************)
MaxTables == 2
MaxDated == 2
MaxTargets == 2
MaxId == 3

\* not a date: sscanf assigns nothing
DateBad == <<"n", "/", "a">>

\* a year and a month only: sscanf assigns two fields
DateShort == <<"1", "9", "9", "8", "-", "0", "1">>

\* a day after Modified Julian Day 100000
DateFar == <<"2", "2", "0", "0", "-", "0", "1", "-", "0", "1">>

Dated(kind, date) == [kind EXCEPT !.tab.date_obs = date]

\* one table of each type, at revision 1 and at revision 2
RevKinds ==
  {Revised(k, rev) :
     k \in {KeyTable("OI_ARRAY", "arrname", "A"),
            KeyTable("OI_WAVELENGTH", "insname", "A"),
            KeyTable("OI_CORR", "corrname", "A"),
            KeyTable("OI_POLAR", "arrname", "A"),
            DataTable("OI_VIS", "A"), DataTable("OI_VIS2", "A"),
            DataTable("OI_T3", "A"), DataTable("OI_SPECTRUM", "A")},
     rev \in {1, 2}}

\* arrays and wavelength tables of two names, data tables of several dates
HdrKinds ==
  {KeyTable("OI_ARRAY", "arrname", "A"), KeyTable("OI_ARRAY", "arrname", "B"),
   KeyTable("OI_WAVELENGTH", "insname", "A"),
   KeyTable("OI_WAVELENGTH", "insname", "B")}
    \cup {Dated(DataTable(ext, "A"), date) :
            ext \in {"OI_VIS", "OI_VIS2", "OI_T3", "OI_SPECTRUM"},
            date \in {Date0, Date1, DateBad, DateShort, DateFar}}

Target(id, name) == [target_id |-> id, target |-> name]

TargetTable(rev, targ) ==
  [revision |-> rev, ntarget |-> Len(targ), targ |-> targ,
   usecategory |-> FALSE]

\* target tables whose ids repeat or are missing
TargetLists ==
  SeqsUpTo({Target(1, "SIRIUS"), Target(1, "CANOPUS"), Target(2, "VEGA")},
           MaxTargets)

\* the containers the calls are made on: tables of every type at either
\* revision; tables of several names and dates with no, one or two targets;
\* target tables whose ids repeat or are missing
ApiContainer(pOi) ==
  \/ \E rev \in {1, 2}, l \in SeqsUpTo(RevKinds, MaxTables) :
        pOi = Container(UserHeader,
                        TargetTable(rev, <<Target(1, "SIRIUS")>>), Hdus(l))
  \/ \E n \in 0..2, l \in SeqsUpTo(HdrKinds, MaxDated) :
        pOi = Container(UserHeader,
                        TargetTable(1, SubSeq(<<Target(1, "SIRIUS"),
                                                Target(2, "VEGA")>>, 1, n)),
                        Hdus(l))
  \/ \E targ \in TargetLists :
        pOi = Container(UserHeader, TargetTable(2, targ), <<>>)

\* the last record with the id, where the code returns the first
RECURSIVE LastTargetFrom(_, _, _)
LastTargetFrom(pOi, targetId, i) ==
  IF i < 1 THEN NULL
  ELSE IF pOi.targets.targ[i].target_id = targetId THEN i
  ELSE LastTargetFrom(pOi, targetId, i - 1)

LookupLastTarget(pOi, targetId) ==
  LastTargetFrom(pOi, targetId, pOi.targets.ntarget)

\* for(i=0; i<ntarget; i++) if(targ[i].target_id == targetId) return &targ[i]
RECURSIVE LookupTargetFrom(_, _, _)
LookupTargetFrom(pOi, targetId, i) ==
  IF i > pOi.targets.ntarget THEN NULL
  ELSE IF pOi.targets.targ[i].target_id = targetId THEN i
  ELSE LookupTargetFrom(pOi, targetId, i + 1)

oi_fits_lookup_target(pOi, targetId) == LookupTargetFrom(pOi, targetId, 1)

InitApi ==
  /\ pc = "client"
  /\ ApiContainer(oi)
  /\ ret = NULL /\ scans = <<>>
  /\ heap = <<>> /\ src = NULL /\ cpy = NULL
  /\ status = 0 /\ file = NoFile /\ rd = Uninitialised
  /\ hdupos = 0 /\ link = 0 /\ extver = 0 /\ pass = 0 /\ calls = <<>>

\* a call returns val; the routines other than set_oi_header take a
\* pointer to const and leave *pOi as it is
Return(fn, arg, val) ==
  /\ ret' = [fn |-> fn, arg |-> arg, val |-> val]
  /\ pc' = "returned"
  /\ UNCHANGED <<status, file, hdupos, link, extver, pass, rd, calls, scans>>
  /\ UNCHANGED dupvars

CallIsOne ==
  /\ pc = "client"
  /\ Return("is_oi_fits_one", NULL, is_oi_fits_one(oi))
  /\ UNCHANGED oi

CallIsTwo ==
  /\ pc = "client"
  /\ Return("is_oi_fits_two", NULL, is_oi_fits_two(oi))
  /\ UNCHANGED oi

CallSetHeader ==
  /\ pc = "client"
  /\ Return("set_oi_header", NULL, NULL)
  /\ oi' = set_oi_header(oi)

CallLookupTarget ==
  /\ pc = "client"
  /\ \E targetId \in 1..MaxId :
        Return("oi_fits_lookup_target", targetId,
               oi_fits_lookup_target(oi, targetId))
  /\ UNCHANGED oi

NextApi == CallIsOne \/ CallIsTwo \/ CallSetHeader \/ CallLookupTarget

SpecApi == InitApi /\ [][NextApi]_vars

(***************************************************************************)
(* The calls of the write and of the load, and what they returned.         *)
(***************************************************************************)
OpenAt ==
  IF \E i \in 1..Len(calls) : calls[i].fn = "fits_open_file"
  THEN CHOOSE i \in 1..Len(calls) : calls[i].fn = "fits_open_file"
  ELSE Len(calls) + 1

WriteCalls == SubSeq(calls, 1, OpenAt - 1)
ReadCalls == SubSeq(calls, OpenAt, Len(calls))

\* the positions in calls of the calls of write_oi_fits and of read_oi_fits
WriteAt == 1..(OpenAt - 1)
ReadAt == OpenAt..Len(calls)

WriteReturned == pc = "written"
ReadReturned == pc = "done"

\* the file was written by write_oi_fits and then loaded by read_oi_fits
RoundTrip ==
  /\ ReadReturned /\ status = 0
  /\ WriteAt # {} /\ ReadAt # {}

Lists == {ListOf[t] : t \in DOMAIN ListOf}
Nums == {NumOf[t] : t \in DOMAIN NumOf}

SameTables(a, b) ==
  /\ \A f \in Lists \cup Nums : a[f] = b[f]
  /\ a.targets = b.targets

SynthFields == {"date_obs", "telescop", "instrume", "object"}

ReadOk(fn) ==
  \E i \in ReadAt :
     calls[i].fn = fn /\ calls[i].in = 0 /\ calls[i].out = 0

PassEnded(ext) ==
  \E i \in ReadAt :
     /\ calls[i].fn = "read_next" /\ calls[i].ext = ext
     /\ calls[i].out = END_OF_FILE

AllPassesEnded == \A p \in 1..NumTypes : PassEnded(TableTypes[p])

C2_SentinelReturnsZero ==
  (ReadReturned /\ ReadOk("read_oi_header") /\ ReadOk("read_oi_target")
     /\ AllPassesEnded)
  => status = 0

(***************************************************************************)
(* C2 amended.  END_OF_FILE is reset before every rewind and is never      *)
(* what read_oi_fits returns; when the header and target reads succeed and *)
(* every pass ends with END_OF_FILE, read_oi_fits returns what the final   *)
(* fits_close_file leaves, 0 when the close succeeds.                      *)
(***************************************************************************)
C2_SentinelCleared ==
  /\ \A i \in ReadAt :
        calls[i].fn \in {"fits_movabs_hdu", "fits_close_file"}
          => calls[i].in = 0
  /\ ReadReturned => status # END_OF_FILE
  /\ (ReadReturned /\ ReadOk("read_oi_header") /\ ReadOk("read_oi_target")
        /\ AllPassesEnded)
     => /\ calls[Len(calls)].fn = "fits_close_file"
        /\ status = calls[Len(calls)].out
        /\ status \in {0, fits_error.fits_close_file}

C2_Witness ==
  /\ ReadReturned /\ status = 0 /\ AllPassesEnded
  /\ rd.numArray = 1 /\ rd.numVis = 1 /\ rd.numSpectrum = 1

(***************************************************************************)
(* C3.  A failed read of the primary header or of the target table, or a   *)
(* non-sentinel status in a pass, ends the load: no later pass calls the   *)
(* codec, and that status is what *pStatus holds and read_oi_fits returns. *)
(***************************************************************************)
PassIndex(c) == IF c.ext = "" THEN 0 ELSE TypeIndex(c.ext)

Fatal(c) ==
  /\ c.in = 0
  /\ \/ c.fn \in {"read_oi_header", "read_oi_target", "fits_movabs_hdu"}
          /\ c.out # 0
     \/ c.fn = "read_next" /\ c.out \notin {0, END_OF_FILE}

C3_FailureAborts ==
  \A i \in ReadAt :
     Fatal(calls[i]) =>
       /\ status = calls[i].out
       /\ pc \in {"done", "read_oi_target", "read_next"}
       /\ \A j \in (i + 1)..Len(calls) :
             /\ calls[j].out = calls[i].out
             /\ calls[j].fn # "fits_close_file"
             /\ calls[j].fn \in {"read_next", "fits_movabs_hdu"}
                  => PassIndex(calls[j]) = PassIndex(calls[i])

C3_Witness ==
  /\ ReadReturned
  /\ rd.numArray = 1 /\ rd.numWavelength = 1
  /\ \E i \in ReadAt :
        /\ Fatal(calls[i])
        /\ calls[i].fn = "read_next" /\ calls[i].ext = "OI_VIS"

(***************************************************************************)
(* C4.  After a successful load each type's list holds the tables the      *)
(* codec returned for that type, in the order returned; these are all the  *)
(* tables of the type in the file, in file order, wherever tables of other *)
(* types lie; and the type's count is the length of the list.              *)
(***************************************************************************)
\* the tables read_next_oi_<ext> returned, in call order
Returned(ext) ==
  LET got == SelectSeq(ReadCalls,
               LAMBDA c : c.fn = "read_next" /\ c.ext = ext /\ c.out = 0)
  IN  [i \in 1..Len(got) |-> file.hdus[got[i].tab].tab]

C4_ListsHoldReturnedTables ==
  (ReadReturned /\ status = 0) =>
    \A p \in 1..NumTypes :
       LET ext == TableTypes[p]
       IN  /\ rd[ListOf[ext]] = Returned(ext)
           /\ rd[ListOf[ext]] = TablesOf(file.hdus, ext)
           /\ rd[NumOf[ext]] = Len(rd[ListOf[ext]])

\* a visibility table lies before the array tables, with another type between
C4_Witness ==
  /\ ReadReturned /\ status = 0
  /\ Len(file.hdus) = 3
  /\ file.hdus[1].extname = "OI_VIS"
  /\ file.hdus[2].extname = "OI_ARRAY"
  /\ file.hdus[3].extname = "OI_ARRAY"
  /\ rd.numArray = 2 /\ rd.numVis = 1

(***************************************************************************)
(* C5.  write_oi_fits calls the codec in the canonical order: the file is  *)
(* created, then the primary header, the target table, the array,          *)
(* wavelength, corr, polar, vis, vis2, t3 and spectrum tables are written, *)
(* each type's tables in list order: the rank of a call is never below the *)
(* rank of the call before it, and when write_oi_fits returns every table  *)
(* of the container has been handed to the codec once.                     *)
(***************************************************************************)
CanonicalRank ==
  [OI_ARRAY |-> 3, OI_WAVELENGTH |-> 4, OI_CORR |-> 5, OI_POLAR |-> 6,
   OI_VIS |-> 7, OI_VIS2 |-> 8, OI_T3 |-> 9, OI_SPECTRUM |-> 10]

WriteRank(c) ==
  CASE c.fn = "fits_create_file" -> 0
    [] c.fn = "write_oi_header" -> 1
    [] c.fn = "write_oi_target" -> 2
    [] c.fn = "write_table" -> CanonicalRank[c.ext]
    [] OTHER -> 11

\* the list positions handed to write_oi_<ext>, in call order
Written(ext) ==
  LET put == SelectSeq(WriteCalls,
               LAMBDA c : c.fn = "write_table" /\ c.ext = ext)
  IN  [i \in 1..Len(put) |-> put[i].tab]

C5_CanonicalWriteOrder ==
  /\ \A i \in WriteAt :
        (i + 1) \in WriteAt =>
          /\ WriteRank(calls[i]) <= WriteRank(calls[i + 1])
          /\ WriteRank(calls[i]) = WriteRank(calls[i + 1])
               => calls[i].tab < calls[i + 1].tab
  /\ (WriteReturned
        /\ \E i \in WriteAt : calls[i].fn = "write_oi_header")
     => \A p \in 1..NumTypes :
           Written(TableTypes[p]) =
             [k \in 1..Len(oi[ListOf[TableTypes[p]]]) |-> k]

C5_Witness ==
  /\ WriteReturned /\ status = 0
  /\ oi.numArray = 1 /\ oi.numVis = 1 /\ oi.numVis2 = 1
  /\ Len(WriteCalls) = 7

(***************************************************************************)
(* C6.  A failing codec call ends the emission: every later call leaves    *)
(* the same status, the file holds exactly the tables written before the   *)
(* failure, and the failing status is what write_oi_fits returns.          *)
(***************************************************************************)
\* the HDUs the successful write calls put in the file
Emitted ==
  LET put == SelectSeq(WriteCalls,
               LAMBDA c : c.fn = "write_table" /\ c.in = 0 /\ c.out = 0)
  IN  [i \in 1..Len(put) |->
         [extname |-> put[i].ext, extver |-> put[i].extver,
          tab |-> oi[ListOf[put[i].ext]][put[i].tab]]]

WroteFile ==
  \E i \in WriteAt :
     calls[i].fn = "fits_create_file" /\ calls[i].out = 0

C6_WriteFailureAborts ==
  /\ WroteFile => file.hdus = Emitted
  /\ \A i \in WriteAt :
        calls[i].out # 0 =>
          /\ \A j \in (i + 1)..(OpenAt - 1) :
                calls[j].out = calls[i].out
          /\ ReadAt = {}
          /\ status = calls[i].out

C6_Witness ==
  /\ WriteReturned
  /\ Len(file.hdus) = 1
  /\ \E i \in WriteAt :
        /\ calls[i].fn = "write_table"
        /\ calls[i].in = 0 /\ calls[i].out # 0
        /\ calls[i + 1].fn = "write_table"
  /\ status = fits_error.write_table

(***************************************************************************)
(* C7.  The k-th table of each type is written with EXTVER k: numbering    *)
(* starts at 1 for every type.                                             *)
(***************************************************************************)
C7_TypeLocalExtver ==
  /\ \A i \in WriteAt :
        calls[i].fn = "write_table"
          => calls[i].extver = calls[i].tab
  /\ WroteFile =>
       \A n \in 1..Len(file.hdus) :
          file.hdus[n].extver =
            Cardinality({m \in 1..n :
                           file.hdus[m].extname = file.hdus[n].extname})

C7_Witness ==
  /\ WriteReturned /\ status = 0
  /\ Len(file.hdus) = 3
  /\ file.hdus[1].extname = "OI_ARRAY" /\ file.hdus[1].extver = 1
  /\ file.hdus[2].extname = "OI_ARRAY" /\ file.hdus[2].extver = 2
  /\ file.hdus[3].extname = "OI_VIS" /\ file.hdus[3].extver = 1

(***************************************************************************)
(* Cross-references: the name fields of the measurement tables and the     *)
(* table list, key field and lookup each of them refers to.                *)
(***************************************************************************)
RefFields == {"arrname", "insname", "corrname"}

RefList == [arrname |-> "arrayList", insname |-> "wavelengthList",
            corrname |-> "corrList"]

Lookup(pOi, field, name) ==
  CASE field = "arrname" -> oi_fits_lookup_array(pOi, name)
    [] field = "insname" -> oi_fits_lookup_wavelength(pOi, name)
    [] field = "corrname" -> oi_fits_lookup_corr(pOi, name)

\* the names the measurement tables of list `l` put in `field`
NamesIn(pOi, l, field) ==
  {pOi[l][i][field] : i \in 1..Len(pOi[l])} \ {""}

Named(pOi, field, name) ==
  \E i \in 1..Len(pOi[RefList[field]]) :
     pOi[RefList[field]][i][field] = name

IsFirstNamed(pOi, field, name, r) ==
  /\ r \in 1..Len(pOi[RefList[field]])
  /\ pOi[RefList[field]][r][field] = name
  /\ \A j \in 1..(r - 1) : pOi[RefList[field]][j][field] # name

ReadSucceeded == ReadReturned /\ status = 0

(***************************************************************************)
(* C8.  After a successful read_oi_fits, every non-empty array,            *)
(* instrument or correlation name of a loaded visibility,                  *)
(* squared-visibility, triple-product or spectrum table that names a       *)
(* loaded table of the matching type is looked up to the first table of    *)
(* that type with that name.                                               *)
(***************************************************************************)
C8_LookupReturnsFirst ==
  ReadSucceeded =>
    \A l \in {"visList", "vis2List", "t3List", "spectrumList"} :
       \A field \in RefFields :
          \A name \in NamesIn(rd, l, field) :
             Named(rd, field, name)
               => IsFirstNamed(rd, field, name, Lookup(rd, field, name))

\* a loaded spectrum table names a loaded correlation table and the lookup
\* of that name finds nothing
C8_Witness ==
  /\ ReadSucceeded
  /\ rd.numCorr = 1 /\ rd.numSpectrum = 1
  /\ rd.spectrumList[1].corrname = rd.corrList[1].corrname
  /\ rd.spectrumList[1].corrname # ""
  /\ oi_fits_lookup_corr(rd, rd.spectrumList[1].corrname) = NULL

(***************************************************************************)
(* C9.  A name that no loaded table carries does not abort the load: when  *)
(* no codec call fails, read_oi_fits returns 0 with every table of the     *)
(* file loaded, and the lookup of each such name returns NULL.             *)
(***************************************************************************)
CodecFailed ==
  \/ ReadAt = {}
  \/ \E i \in ReadAt : calls[i].out \notin {0, END_OF_FILE}

Dangling(pOi, field) ==
  UNION {NamesIn(pOi, l, field) :
           l \in {"visList", "vis2List", "t3List", "spectrumList"}}
    \ {pOi[RefList[field]][i][field] : i \in 1..Len(pOi[RefList[field]])}

C9_DanglingNeverAborts ==
  /\ (ReadReturned /\ ~CodecFailed) =>
        /\ status = 0
        /\ \A p \in 1..NumTypes :
              /\ rd[ListOf[TableTypes[p]]] = TablesOf(file.hdus, TableTypes[p])
              /\ rd[NumOf[TableTypes[p]]] = Len(rd[ListOf[TableTypes[p]]])
  /\ ReadReturned =>
        \A field \in RefFields :
           \A name \in Dangling(rd, field) : Lookup(rd, field, name) = NULL

C9_Witness ==
  /\ ReadSucceeded
  /\ rd.numArray = 1 /\ rd.numVis = 1 /\ rd.numSpectrum = 1
  /\ Dangling(rd, "arrname") = {"A"}
  /\ Dangling(rd, "insname") = {"A"}
  /\ Dangling(rd, "corrname") = {"A"}
  /\ "A" \in DOMAIN rd.arrayHash

(***************************************************************************)
(* C10.  A copy is value-equal to its source and not aliased with it:      *)
(* every nested array of the copy has the contents of the same-named array *)
(* of the source and is an allocation of its own, and overwriting an       *)
(* element of the copy leaves the arrays of the source as they were.       *)
(***************************************************************************)
Scalars(tab) ==
  [f \in DOMAIN tab \ (KeyFields(tab) \cup {"record"}) |-> tab[f]]

SourceAllocations ==
  {At(heap, src, q) : q \in Nested(src)}
    \cup (IF IsDataTable(src) THEN {src.record} ELSE {})

C10_DeepCopy ==
  /\ pc = "copied" =>
        /\ Scalars(cpy) = Scalars(src)
        /\ IsDataTable(src) => cpy.record \notin SourceAllocations
        /\ \A path \in Nested(src) :
              /\ At(heap, cpy, path) \notin SourceAllocations
              /\ heap[At(heap, cpy, path)] = heap[At(heap, src, path)]
  /\ pc = "mutated" =>
        \A path \in Nested(src) :
           \A i \in 1..Len(heap[At(heap, src, path)]) :
              heap[At(heap, src, path)][i] # -1

\* a copied visibility table with usecomplex set whose iviserr holds the
\* numbers of the source's rviserr and not those of the source's iviserr
C10_Witness ==
  /\ pc = "copied" /\ src.type = "oi_vis" /\ src.usecomplex
  /\ heap[At(heap, cpy, <<1, "iviserr">>)]
       = heap[At(heap, src, <<1, "rviserr">>)]
  /\ heap[At(heap, cpy, <<1, "iviserr">>)]
       # heap[At(heap, src, <<1, "iviserr">>)]

(***************************************************************************)
(* C11.  dup_oi_vis copies visrefmap only when usevisrefmap is set and     *)
(* rvis, rviserr, ivis and iviserr only when usecomplex is set: with the   *)
(* flag set each of them is an allocation of the copy's own, and with the  *)
(* flag not set it is absent (NULL) in every record of the copy, so that   *)
(* the copy points at no array of the source.                              *)
(***************************************************************************)
ComplexFields == {"rvis", "rviserr", "ivis", "iviserr"}

\* every array a record of the source points at, used or not
SourcePointers ==
  {heap[src.record][r][f] :
     r \in 1..src.numrec, f \in DOMAIN heap[src.record][1]} \ {NULL}

CopiedWhen(flag, r, f) ==
  IF flag
  THEN /\ heap[cpy.record][r][f] # NULL
       /\ heap[cpy.record][r][f] \notin SourcePointers
  ELSE heap[cpy.record][r][f] = NULL

CheckedLists ==
  {"arrayList", "wavelengthList", "visList", "vis2List", "t3List"}

NewLists == {"corrList", "polarList", "spectrumList"}

Revisions(pOi, lists) ==
  UNION {{pOi[l][i].revision : i \in 1..Len(pOi[l])} : l \in lists}

Called(fn) == pc = "returned" /\ ret.fn = fn

Returns(fn) ==
  /\ pc' = "returned"
  /\ ret'.fn = fn

C12_RevisionChecker ==
  [][/\ Returns("is_oi_fits_one") =>
          /\ ret'.val = (Revisions(oi, CheckedLists) \cup {oi.targets.revision}
                           = {1})
          /\ oi' = oi
     /\ Returns("is_oi_fits_two") =>
          /\ ret'.val =
                (/\ Revisions(oi, CheckedLists) \cup {oi.targets.revision}
                      = {2}
                 /\ Revisions(oi, NewLists) \subseteq {1})
          /\ oi' = oi]_vars

\* version 1 with a corr table of revision 2 that the check ignores
C12_Witness ==
  /\ Called("is_oi_fits_one")
  /\ ret.val = TRUE
  /\ oi.numArray = 1 /\ oi.numCorr = 1 /\ oi.corrList[1].revision = 2

\* version 2 refused for one vis2 table of revision 1 after one of revision 2
C12_RefusedTwo ==
  /\ Called("is_oi_fits_two")
  /\ ret.val = FALSE
  /\ oi.targets.revision = 2 /\ oi.numVis2 = 2
  /\ oi.vis2List[1].revision = 2 /\ oi.vis2List[2].revision = 1

(***************************************************************************)
(* C13.  set_oi_header sets the telescope to "UNKNOWN" with no array       *)
(* table, to the array name with exactly one and to "MULTIPLE" with more;  *)
(* the instrument to the wavelength table's name with exactly one and to   *)
(* "MULTIPLE" otherwise, also with none; the object to the target's name   *)
(* with exactly one target and to "MULTIPLE" otherwise.  Nothing but the   *)
(* telescope, instrument, object and date of the header is changed.        *)
(***************************************************************************)
SoleOr(names, none) ==
  IF Len(names) = 0 THEN none
  ELSE IF Len(names) = 1 THEN names[1]
  ELSE "MULTIPLE"

ArrayNames(pOi) == [i \in 1..Len(pOi.arrayList) |-> pOi.arrayList[i].arrname]

InsNames(pOi) ==
  [i \in 1..Len(pOi.wavelengthList) |-> pOi.wavelengthList[i].insname]

TargetNames(pOi) ==
  [i \in 1..Len(pOi.targets.targ) |-> pOi.targets.targ[i].target]

SetFields == {"telescop", "instrume", "object", "date_obs"}

C13_HeaderNames ==
  [][Returns("set_oi_header") =>
       /\ oi'.header.telescop = SoleOr(ArrayNames(oi), "UNKNOWN")
       /\ oi'.header.instrume = SoleOr(InsNames(oi), "MULTIPLE")
       /\ oi'.header.object = SoleOr(TargetNames(oi), "MULTIPLE")
       /\ \A f \in DOMAIN oi.header \ SetFields :
             oi'.header[f] = oi.header[f]
       /\ DOMAIN oi' = DOMAIN oi
       /\ \A f \in DOMAIN oi \ {"header"} : oi'[f] = oi[f]]_vars

\* one array table, no wavelength table and two targets
C13_Witness ==
  /\ Called("set_oi_header")
  /\ oi.numArray = 1 /\ oi.numWavelength = 0 /\ oi.targets.ntarget = 2
  /\ oi.header.telescop = oi.arrayList[1].arrname
  /\ oi.header.telescop # UserHeader.telescop
  /\ oi.header.instrume = "MULTIPLE"
  /\ oi.header.object = "MULTIPLE"
  /\ oi.header.origin = UserHeader.origin

(***************************************************************************)
(* C14.  set_oi_header sets the date of the header to the earliest         *)
(* date-obs of the vis, vis2, t3 and spectrum tables whose date string     *)
(* parses as YYYY-MM-DD: in every container with at least one such table   *)
(* the header date is the minimum of those dates, and a table whose date   *)
(* string does not parse is left out of the comparison.                    *)
(***************************************************************************)
DatedTables(pOi) ==
  pOi.visList \o pOi.vis2List \o pOi.t3List \o pOi.spectrumList

Ymd(got) == <<got.year, got.month, got.day>>

\* the calendar dates of the tables whose date string parses
ParsedDates(pOi) ==
  {Ymd(ScanDate(DatedTables(pOi)[i].date_obs)) :
     i \in {j \in 1..Len(DatedTables(pOi)) :
              ScanDate(DatedTables(pOi)[j].date_obs).n = 3}}

\* calendar order on <<year, month, day>>
NotAfter(d, e) ==
  \/ d[1] < e[1]
  \/ d[1] = e[1] /\ d[2] < e[2]
  \/ d[1] = e[1] /\ d[2] = e[2] /\ d[3] <= e[3]

C14_EarliestDate ==
  (Called("set_oi_header") /\ ParsedDates(oi) # {}) =>
     /\ ScanDate(oi.header.date_obs).n = 3
     /\ Ymd(ScanDate(oi.header.date_obs)) \in ParsedDates(oi)
     /\ \A e \in ParsedDates(oi) :
           NotAfter(Ymd(ScanDate(oi.header.date_obs)), e)

\* the only table whose date parses is dated 2200-01-01, and the header is
\* given a date that no table has
C14_Witness ==
  /\ Called("set_oi_header")
  /\ ParsedDates(oi) = {<<2200, 1, 1>>}
  /\ oi.numVis2 = 1 /\ oi.vis2List[1].date_obs = DateFar
  /\ Ymd(ScanDate(oi.header.date_obs)) = <<2132, 9, 1>>

\* two tables whose dates parse: the header has the earlier date
C14_EarliestOfTwo ==
  /\ Called("set_oi_header")
  /\ Len(DatedTables(oi)) = 2
  /\ ParsedDates(oi) = {<<1999, 12, 31>>, <<2020, 5, 1>>}
  /\ oi.header.date_obs = Date0

\* two tables, one with a string that does not parse: the header has the
\* date of the other
C14_BadDateSkipped ==
  /\ Called("set_oi_header")
  /\ oi.numVis = 1 /\ oi.visList[1].date_obs = DateBad
  /\ oi.numT3 = 1 /\ oi.t3List[1].date_obs = Date1
  /\ oi.header.date_obs = Date1

(***************************************************************************)
(* C16.  oi_fits_lookup_target returns the first record, in the order of   *)
(* the target list, whose target_id is the requested id, also when several *)
(* records have that id, and NULL when none has; the container is not      *)
(* modified.                                                               *)
(***************************************************************************)
TargetIds(pOi) ==
  [i \in 1..Len(pOi.targets.targ) |-> pOi.targets.targ[i].target_id]

C16_FirstTarget ==
  [][Returns("oi_fits_lookup_target") =>
       /\ oi' = oi
       /\ IF \E i \in DOMAIN TargetIds(oi) : TargetIds(oi)[i] = ret'.arg
          THEN /\ ret'.val \in DOMAIN TargetIds(oi)
               /\ TargetIds(oi)[ret'.val] = ret'.arg
               /\ \A j \in 1..(ret'.val - 1) : TargetIds(oi)[j] # ret'.arg
          ELSE ret'.val = NULL]_vars

\* two records share the id 1 and the first of them is returned
C16_Witness ==
  /\ Called("oi_fits_lookup_target")
  /\ ret.arg = 1 /\ ret.val = 1
  /\ TargetIds(oi) = <<1, 1>>
  /\ oi.targets.targ[1].target # oi.targets.targ[2].target

\* no record has the id 3
C16_NotFound ==
  /\ Called("oi_fits_lookup_target")
  /\ ret.arg = 3 /\ ret.val = NULL
  /\ oi.targets.ntarget = 2

(***************************************************************************)
(* C17.  Insertion into the name indices during a load is idempotent: for  *)
(* each distinct array, instrument or correlation name the scan of the     *)
(* table list (find_oi_array, find_oi_wavelength, find_oi_corr) is made at *)
(* most once per load, however many measurement tables refer to the name   *)
(* and whether or not a table has that name.                               *)
(***************************************************************************)
ScansOf(fn, name) == {i \in DOMAIN scans : scans[i] = Scan(fn, name)}

C17_ScanOncePerName ==
  \A i, j \in DOMAIN scans : scans[i] = scans[j] => i = j

\* two vis tables name an array "A" that the file does not have: the array
\* list is scanned for "A" once for each of them
C17_Witness ==
  /\ pc = "done" /\ ReadSucceeded
  /\ rd.numVis = 2 /\ rd.numArray = 0
  /\ rd.visList[1].arrname = "A" /\ rd.visList[2].arrname = "A"
  /\ Cardinality(ScansOf("find_oi_array", "A")) = 2

\* a name that a table has is scanned for once, whatever refers to it
C17_ResolvedOnce ==
  \A i, j \in DOMAIN scans :
     (scans[i] = scans[j] /\ i # j) =>
        \/ scans[i].fn = "find_oi_array"
             /\ find_oi_array(rd, scans[i].name) = NULL
        \/ scans[i].fn = "find_oi_wavelength"
             /\ find_oi_wavelength(rd, scans[i].name) = NULL
        \/ scans[i].fn = "find_oi_corr"
             /\ find_oi_corr(rd, scans[i].name) = NULL

(***************************************************************************)
(* C18.  An empty name in a measurement table is no reference: for an      *)
(* empty array, instrument or correlation name the loader neither scans    *)
(* the table list nor inserts an entry, so that after any load none of the *)
(* three name indices has the empty string as a key.                       *)
(***************************************************************************)
HashKeys(pOi) ==
  DOMAIN pOi.arrayHash \cup DOMAIN pOi.wavelengthHash \cup DOMAIN pOi.corrHash

C18_NoEmptyKey ==
  /\ "" \notin HashKeys(rd)
  /\ \A i \in DOMAIN scans : scans[i].name # ""

\* a vis table with empty names is loaded: the wavelength list is scanned
\* for "" and "" becomes a key of the wavelength index, and of it alone
C18_Witness ==
  /\ pc = "done" /\ ReadSucceeded
  /\ rd.numVis = 1 /\ rd.visList[1].insname = ""
  /\ rd.visList[1].arrname = "" /\ rd.visList[1].corrname = ""
  /\ "" \in DOMAIN rd.wavelengthHash
  /\ "" \notin DOMAIN rd.arrayHash \cup DOMAIN rd.corrHash
  /\ ScansOf("find_oi_wavelength", "") # {}
  /\ ScansOf("find_oi_array", "") \cup ScansOf("find_oi_corr", "") = {}

(***************************************************************************)
(* C15.  At the end of a successful read_oi_fits, after the eight passes,  *)
(* set_oi_header has been invoked if and only if the loaded container is   *)
(* version-1-consistent: then TELESCOP, INSTRUME, OBJECT and DATE-OBS are  *)
(* the synthesized values, and for a container that is not                 *)
(* version-1-consistent the header is exactly the one read from the file.  *)
(***************************************************************************)
LoadedVersionOne ==
  Revisions(rd, CheckedLists) \cup {rd.targets.revision} = {1}

Synthesized ==
  /\ rd.header.telescop = SoleOr(ArrayNames(rd), "UNKNOWN")
  /\ rd.header.instrume = SoleOr(InsNames(rd), "MULTIPLE")
  /\ rd.header.object = SoleOr(TargetNames(rd), "MULTIPLE")
  /\ ParsedDates(rd) # {} =>
        Ymd(ScanDate(rd.header.date_obs)) \in ParsedDates(rd)
  /\ \A f \in DOMAIN rd.header \ SetFields : rd.header[f] = file.header[f]

C15_SynthesisIffVersionOne ==
  (pc = "done" /\ ReadSucceeded) =>
     IF LoadedVersionOne THEN Synthesized ELSE rd.header = file.header

\* the target table is of revision 1 and a t3 table of revision 2: the
\* header is the one of the file
C15_Witness ==
  /\ pc = "done" /\ ReadSucceeded
  /\ rd.targets.revision = 1
  /\ rd.numT3 = 1 /\ rd.t3List[1].revision = 2
  /\ rd.numArray = 1 /\ rd.numVis = 1
  /\ rd.header = file.header
  /\ ~Synthesized

\* a version 1 file: the header read from the file is replaced
C15_Backfilled ==
  /\ pc = "done" /\ ReadSucceeded
  /\ LoadedVersionOne
  /\ rd.numArray = 1 /\ rd.numVis = 1 /\ rd.numWavelength = 1
  /\ Synthesized
  /\ rd.header.telescop # file.header.telescop
  /\ rd.header.date_obs = Date1

====
